---- MODULE Spec2Model ----
(***************************************************************************)
(* ChromeFlex core: the feature lifecycle state machine (BaseFeature),     *)
(* the registry's ordering (ChromeFlexFeatureRegistry) and the manager's   *)
(* activation / deactivation loops (ChromeFlexFeatureManager).             *)
(*                                                                         *)
(* Every action is one synchronous run of the code: from an entry point   *)
(* or the settling of an awaited hook up to the next await.  The code's    *)
(* calls are pure operators over a "world" record w (the features, the     *)
(* in-flight calls, the manager, the events dispatched in this run), so    *)
(* that a handler's sequence of calls composes.                            *)
(***************************************************************************)
EXTENDS Integers, Sequences, FiniteSets, TLC

VARIABLES
  cfg,       \* name -> FeatureConfig (immutable after construction)
  features,  \* registry.features: sequence of names in Map insertion order
  feat,      \* name -> the BaseFeature's private fields
  calls,     \* name -> sequence of in-flight lifecycle calls (awaiting a hook)
  mgr,       \* the manager: isInitialized and its loops in flight
  sorted,    \* result of the last registry query
  lastOp,    \* what the last step was (op, unit, caller, outcome, ...)
  emitted,   \* the events eventBus.emit dispatched during the last step
  order,     \* the order in which the manager called init / stop (history)
  errors,    \* registry.errors: the error history, oldest first
  bus,       \* the event bus: its listener map, the Sets, emits in progress
  validation, \* what the last validateDependencies() call returned
  now        \* Date.now(), in steps of the error history's clock

vars ==
  <<cfg, features, feat, calls, mgr, sorted, lastOp, emitted, order,
    errors, bus, validation, now>>

----------------------------------------------------------------------------
\* Bounds of the model

MaxFailures == 4
  \* hooks and callbacks stop failing once retryCount reaches this
MaxTimers == 1
  \* timer ids a unit may hold (tracked or pending) at once
MaxCalls == 1
  \* lifecycle calls of one unit in flight at once
MaxInits == 2
  \* completed initialize() calls of the manager
MaxErrors == 2
  \* hooks stop failing once the manager has recorded this many errors

\* the cap of the registry's error history
ErrorCap == 100

\* errorRecovery.maxRetries: never retry, the spec's scenario, the default
MaxRetriesChoices == {0, 2, 3}
RetryDelays == {100}
CleanupIds == {1}
IntervalIds == {1}

Phases == {"init", "start", "stop", "destroy"}

NoOp == [op |-> "none", unit |-> "none", outcome |-> "none", incs |-> 0, errs |-> 0]

MaxSets == 2
  \* listener Sets the bus creates
MaxEntries == 2
  \* entries a listener Set has held since it was last iterated
MaxDepth == 2
  \* emits in progress, one inside the other
MaxUnsubs == 1
  \* unsubscribe functions the callers of on() keep

\* listeners subscribed with on(); the wrappers once() creates
Listeners == {"X", "Y"}
Wrappers == {"W"}
\* two versions of the bus: src/core/event-bus.ts, unnamed/part_019
Impls == {"core", "alt"}

\* an event bus nobody has subscribed to.  One event type is followed:
\* map is the Set listeners.get(type) (0: none), sets the Set objects
\* created so far, each the list of its entries in insertion order with
\* deleted entries left as Gone, stack the emits in progress, unsubs the
\* unsubscribe functions on() has returned, runs the times each once()
\* wrapper has called its listener.
\* done tells whether an emit ended in the last step, and then whether it
\* left a listener uncalled that was registered when it began (missed),
\* called one that was not, or one twice (extra), whether its listeners
\* left the bus alone (quiet), whether one of them threw or rejected
\* (failed) and whether the emit itself threw.
NoEmit ==
  [ended |-> FALSE, missed |-> {}, extra |-> FALSE, quiet |-> TRUE,
   failed |-> FALSE, threw |-> FALSE]

NoBus ==
  [impl |-> "core", map |-> 0, sets |-> <<>>, stack |-> <<>>, unsubs |-> {},
   runs |-> [w \in Wrappers |-> 0], done |-> NoEmit]

Gone == "gone"

\* validateDependencies() has not been called since the registry changed
NoValidation == [called |-> FALSE, valid |-> TRUE, errors |-> <<>>]

----------------------------------------------------------------------------
\* Small helpers

Min(S) == CHOOSE x \in S : \A y \in S : x <= y

RemoveAt(s, i) == [j \in 1..(Len(s) - 1) |-> IF j < i THEN s[j] ELSE s[j + 1]]

SeqToSet(s) == {s[i] : i \in 1..Len(s)}

\* window.setTimeout / setInterval hand out ids never in use
FreshId(used) == Min((1..(Cardinality(used) + 1)) \ used)

----------------------------------------------------------------------------
\* BaseFeature (src/src/core/base-feature.ts).  A context c is
\* [f: the feature's fields, n: its name, k: its config, ev: events emitted
\*  so far in this run, incs: retryCount increments made in this run].

NewFeature ==
  [state |-> "idle", retryCount |-> 0, lastError |-> "none",
   timers |-> {}, pending |-> {}, intervals |-> {},
   cleanupTasks |-> {}, ran |-> [t \in CleanupIds |-> 0]]

\* what a listener sees of the feature's resources when an event reaches it
Observed(f) ==
  [pending |-> {t.id : t \in f.pending}, intervals |-> f.intervals,
   cleanupTasks |-> f.cleanupTasks, ran |-> f.ran]

emit(c, e) == [c EXCEPT !.ev = Append(@, [e |-> e, obs |-> Observed(c.f)])]

\* (mutant) one attempt too many
canRetry_AllowsEqual(f, k) == f.retryCount <= k.maxRetries

canRetry(f, k) == f.retryCount < k.maxRetries

setState(c, newState) ==
  LET oldState == c.f.state
      c1 == [c EXCEPT !.f.state = newState]
  IN emit(c1, [type |-> "feature:state-changed", feature |-> c.n,
               oldState |-> oldState, newState |-> newState,
               retryCount |-> c1.f.retryCount, lastError |-> c1.f.lastError])

\* reset that returns to idle from every state
reset_FromAnyState(c) ==
  setState([c EXCEPT !.f.retryCount = 0, !.f.lastError = "none"], "idle")

reset(c) ==
  LET c1 == [c EXCEPT !.f.retryCount = 0, !.f.lastError = "none"]
  IN IF c1.f.state = "error" THEN setState(c1, "idle") ELSE c1

\* (mutant) the delay does not grow with the attempt
scheduleRetry_FixedDelay(c, phase) ==
  LET timerId == FreshId(c.f.timers \cup {t.id : t \in c.f.pending})
  IN [c EXCEPT !.f.pending = @ \cup {[id |-> timerId, kind |-> "retry",
                                        phase |-> phase,
                                        delay |-> c.k.retryDelay]},
               !.f.timers = @ \cup {timerId}]

\* scheduleRetry that does not add its timer to the timer set
scheduleRetry_Untracked(c, phase) ==
  LET delay == c.k.retryDelay * c.f.retryCount
      timerId == FreshId(c.f.timers \cup {t.id : t \in c.f.pending})
  IN [c EXCEPT !.f.pending = @ \cup {[id |-> timerId, kind |-> "retry",
                                        phase |-> phase, delay |-> delay]}]

scheduleRetry(c, phase) ==
  LET delay == c.k.retryDelay * c.f.retryCount
      timerId == FreshId(c.f.timers \cup {t.id : t \in c.f.pending})
  IN [c EXCEPT !.f.pending = @ \cup {[id |-> timerId, kind |-> "retry",
                                        phase |-> phase, delay |-> delay]},
               !.f.timers = @ \cup {timerId}]

safeCleanup(c) ==
  [c EXCEPT !.f.pending = {t \in @ : t.id \notin c.f.timers},
            !.f.timers = {},
            !.f.intervals = {},
            !.f.ran = [t \in DOMAIN @ |->
                         IF t \in c.f.cleanupTasks THEN @[t] + 1 ELSE @[t]],
            !.f.cleanupTasks = {}]

\* (mutant) fallback entered without its event
enterFallbackMode_NoEvent(c) == safeCleanup(setState(c, "fallback"))

enterFallbackMode(c) ==
  LET c1 == setState(c, "fallback")
      c2 == safeCleanup(c1)
  IN emit(c2, [type |-> "feature:fallback", feature |-> c.n,
               reason |-> "max_retries_exceeded"])

\* handleError that leaves the feature in error when it cannot retry
handleError_RestsInError(c, phase) ==
  LET c1 == [c EXCEPT !.f.lastError = phase,
                      !.f.retryCount = @ + 1,
                      !.incs = @ + 1]
      c2 == emit(c1, [type |-> "feature:error", feature |-> c.n,
                      phase |-> phase, canRetry |-> canRetry(c1.f, c.k)])
      c3 == setState(c2, "error")
  IN IF canRetry(c3.f, c.k) THEN scheduleRetry(c3, phase) ELSE c3

handleError(c, phase) ==
  LET c1 == [c EXCEPT !.f.lastError = phase,
                      !.f.retryCount = @ + 1,
                      !.incs = @ + 1]
      c2 == emit(c1, [type |-> "feature:error", feature |-> c.n,
                      phase |-> phase, canRetry |-> canRetry(c1.f, c.k)])
      c3 == setState(c2, "error")
  IN IF canRetry(c3.f, c.k) THEN scheduleRetry(c3, phase)
     ELSE IF c.k.fallbackMode THEN enterFallbackMode(c3)
     ELSE setState(c3, "disabled")

\* the guards of init(), start(), stop(); destroy() has none
\* (mutant) init also accepted from stopped
initAllowed_AlsoStopped(f) == f.state \in {"idle", "error", "stopped"}

initAllowed(f) == f.state \in {"idle", "error"}

startAllowed(f) == f.state \in {"initialized", "stopped", "error"}

stopAllowed(f) == f.state \in {"running", "error"}

opAllowed(f, op) ==
  CASE op = "init" -> initAllowed(f)
    [] op = "start" -> startAllowed(f)
    [] op = "stop" -> stopAllowed(f)
    [] OTHER -> TRUE

\* the state set before the hook is awaited
enteringState(op) ==
  CASE op = "init" -> "initializing"
    [] op = "start" -> "starting"
    [] OTHER -> "stopping"

\* init / start / stop after the awaited hook resolved
initSucceeded(c) ==
  [setState(c, "initialized") EXCEPT !.f.retryCount = 0]

\* (mutant) start forgets to reset the retry counter
startSucceeded_KeepsCount(c) == setState(c, "running")

startSucceeded(c) ==
  [setState(c, "running") EXCEPT !.f.retryCount = 0]

stopSucceeded(c) == setState(c, "stopped")

\* destroy after onDestroy resolved
destroySucceeded(c) == setState(safeCleanup(c), "idle")

\* destroy whose catch block does not clean up
destroyFailed_NoCleanup(c) == handleError(c, "destroy")

\* destroy's catch block followed by safeExecute's catch
destroyFailed(c) == handleError(safeCleanup(c), "destroy")

----------------------------------------------------------------------------
\* ChromeFlexEventBus (src/src/core/event-bus.ts, unnamed/part_019) as
\* operators over the bus record b

Live(entries) == SelectSeq(entries, LAMBDA l : l # Gone)

\* Set.prototype.delete / add: an iteration in progress skips a deleted
\* entry and reaches an added one
setDelete(b, id, l) ==
  [b EXCEPT !.sets[id] = [i \in DOMAIN @ |-> IF @[i] = l THEN Gone ELSE @[i]]]

setAdd(b, id, l) ==
  IF \E i \in DOMAIN b.sets[id] : b.sets[id][i] = l THEN b
  ELSE [b EXCEPT !.sets[id] = Append(@, l)]

\* the position of the next entry a for-of over the Set visits after pos
NextPos(entries, pos) ==
  LET rest == {i \in (pos + 1)..Len(entries) : entries[i] # Gone}
  IN IF rest = {} THEN 0 ELSE Min(rest)

busOn(b, l) ==
  LET b1 == IF b.map = 0
            THEN [b EXCEPT !.sets = Append(@, <<>>), !.map = Len(b.sets) + 1]
            ELSE b
  IN setAdd(b1, b1.map, l)

busOff(b, l) ==
  IF b.map = 0 THEN b
  ELSE LET b1 == setDelete(b, b.map, l)
       IN IF Live(b1.sets[b.map]) = <<>> THEN [b1 EXCEPT !.map = 0] ELSE b1

\* the function on() returned: u is [set: the Set on() added to, l, called].
\* src/core/event-bus.ts deletes from the Set it captured and drops the
\* type when that Set is empty; unnamed/part_019 looks the Set up again
unsubscribe(b, u) ==
  IF b.impl = "core"
  THEN LET b1 == setDelete(b, u.set, u.l)
       IN IF Live(b1.sets[u.set]) = <<>> THEN [b1 EXCEPT !.map = 0] ELSE b1
  ELSE busOff(b, u.l)

busClear(b) == [b EXCEPT !.map = 0]

\* emit calls listener l: a once() wrapper first takes itself off the bus
listenerCalled(b, l) ==
  IF l \in Wrappers THEN [busOff(b, l) EXCEPT !.runs[l] = @ + 1] ELSE b

\* emit(type, ...) up to the call of the first listener; a frame is the
\* Set iterated and the position in it, and for the outermost emit the
\* listeners registered when it began that it has yet to call (todo),
\* whether it called any other (extra) and whether its listeners used the
\* bus (quiet)
busEmit(b) ==
  IF b.map = 0
  THEN [b EXCEPT !.done = [NoEmit EXCEPT !.ended = b.stack = <<>>]]
  ELSE LET entries == b.sets[b.map]
           first == NextPos(entries, 0)
           outer == b.stack = <<>>
           frame == [set |-> b.map, pos |-> first,
                     todo |-> IF outer
                              THEN SeqToSet(Live(entries)) \ {entries[first]}
                              ELSE {},
                     extra |-> FALSE, quiet |-> TRUE, failed |-> FALSE]
       IN listenerCalled([b EXCEPT !.stack = Append(@, frame)],
                         entries[first])

\* the for-of loop of the innermost emit is over: emit returns or throws
endDispatch(b, threw) ==
  LET fr == b.stack[Len(b.stack)]
  IN [b EXCEPT !.stack = SubSeq(@, 1, Len(@) - 1),
               !.done = IF Len(b.stack) = 1
                        THEN [ended |-> TRUE, missed |-> fr.todo,
                              extra |-> fr.extra, quiet |-> fr.quiet,
                              failed |-> fr.failed, threw |-> threw]
                        ELSE NoEmit]

\* the loop goes on to its next listener, or ends
dispatchNext(b) ==
  LET fr == b.stack[Len(b.stack)]
      entries == b.sets[fr.set]
      next == NextPos(entries, fr.pos)
  IN IF next = 0
     THEN endDispatch(b, FALSE)
     ELSE listenerCalled(
            [b EXCEPT !.stack[Len(b.stack)] =
                         [fr EXCEPT !.pos = next,
                                    !.todo = @ \ {entries[next]},
                                    !.extra =
                                       \/ @
                                       \/ /\ Len(b.stack) = 1
                                          /\ entries[next] \notin fr.todo]],
            entries[next])

\* the outermost emit notes a listener of its own that threw or rejected
noted(b, outcome) ==
  IF Len(b.stack) = 1 /\ outcome # "ok"
  THEN [b EXCEPT !.stack[1].failed = TRUE] ELSE b

\* (mutant) a listener that throws ends the dispatch
listenerReturned_ThrowAborts(b, outcome) ==
  IF outcome = "throw" THEN endDispatch(noted(b, outcome), TRUE)
  ELSE dispatchNext(noted(b, outcome))

\* the running listener returned, threw (caught and logged) or returned a
\* promise that rejects (a catch handler is attached)
listenerReturned(b, outcome) == dispatchNext(noted(b, outcome))

\* a Set no emit is iterating shows only its live entries; a Set that is
\* neither registered, nor iterated, nor held by an unsubscribe function
\* is out of reach
compact(b) ==
  [b EXCEPT !.sets =
     [id \in DOMAIN @ |->
        IF \E i \in DOMAIN b.stack : b.stack[i].set = id THEN @[id]
        ELSE IF b.map = id \/ \E u \in b.unsubs : u.set = id
        THEN Live(@[id])
        ELSE <<>>]]

\* a listener of the outermost emit in progress has used the bus
disturbed(b) ==
  [b EXCEPT !.stack = [i \in DOMAIN @ |->
                         [@[i] EXCEPT !.quiet = IF i = 1 THEN FALSE ELSE @]],
            !.done = NoEmit]

----------------------------------------------------------------------------
\* ChromeFlexFeatureRegistry (src/src/core/feature-registry.ts).  reg is the
\* features Map as the sequence of its keys in insertion order; k gives each
\* feature's config (dependencies, priority).

Registered(reg) == SeqToSet(reg)

Reverse(s) == [i \in 1..Len(s) |-> s[Len(s) + 1 - i]]

\* the comparator (b.priority || 0) - (a.priority || 0) is negative
higherPriority(k, a, b) == k[a].priority > k[b].priority

\* Array.prototype.sort is stable: x goes after every element that does not
\* compare greater than it
RECURSIVE InsertSorted(_, _, _)
InsertSorted(s, x, k) ==
  IF s = <<>> THEN <<x>>
  ELSE IF higherPriority(k, x, Head(s)) THEN <<x>> \o s
  ELSE <<Head(s)>> \o InsertSorted(Tail(s), x, k)

\* getSortedFeatures without its final sort
sortByPriority_VisitOrder(s, k) == s

RECURSIVE sortByPriority(_, _)
sortByPriority(s, k) ==
  IF s = <<>> THEN <<>>
  ELSE InsertSorted(sortByPriority(SubSeq(s, 1, Len(s) - 1), k),
                    s[Len(s)], k)

\* the closure visit of getSortedFeatures; st is [sorted, visited, visiting]
RECURSIVE visit(_, _, _, _)
RECURSIVE visitEach(_, _, _, _)
\* visit without its test of the visited set
visit_NoVisitedCheck(st, reg, k, featureName) ==
  IF featureName \in st.visiting THEN st
  ELSE IF featureName \notin Registered(reg) THEN st
  ELSE LET st1 == [st EXCEPT !.visiting = @ \cup {featureName}]
           st2 == visitEach(st1, reg, k, k[featureName].dependencies)
       IN [st2 EXCEPT !.visiting = @ \ {featureName},
                      !.visited = @ \cup {featureName},
                      !.sorted = Append(@, featureName)]

visit(st, reg, k, featureName) ==
  IF featureName \in st.visited THEN st
  ELSE IF featureName \in st.visiting THEN st
  ELSE IF featureName \notin Registered(reg) THEN st
  ELSE LET st1 == [st EXCEPT !.visiting = @ \cup {featureName}]
           st2 == visitEach(st1, reg, k, k[featureName].dependencies)
       IN [st2 EXCEPT !.visiting = @ \ {featureName},
                      !.visited = @ \cup {featureName},
                      !.sorted = Append(@, featureName)]

visitEach(st, reg, k, names) ==
  IF names = <<>> THEN st
  ELSE visitEach(visit(st, reg, k, Head(names)), reg, k, Tail(names))

getSortedFeatures(reg, k) ==
  LET st == visitEach([sorted |-> <<>>, visited |-> {}, visiting |-> {}],
                      reg, k, reg)
  IN sortByPriority(st.sorted, k)

\* the closure checkCircular of validateDependencies; st is
\* [errors, visited, visiting]
RECURSIVE checkCircular(_, _, _, _, _)
RECURSIVE checkEach(_, _, _, _, _)
checkCircular(st, reg, k, featureName, path) ==
  IF featureName \in st.visited THEN st
  ELSE IF featureName \in st.visiting
  THEN [st EXCEPT !.errors =
          Append(@, [kind |-> "circular", path |-> Append(path, featureName)])]
  ELSE LET st1 == [st EXCEPT !.visiting = @ \cup {featureName}]
           deps == IF featureName \in Registered(reg)
                   THEN k[featureName].dependencies ELSE <<>>
           st2 == checkEach(st1, reg, k, deps, Append(path, featureName))
       IN [st2 EXCEPT !.visiting = @ \ {featureName},
                      !.visited = @ \cup {featureName}]

checkEach(st, reg, k, names, path) ==
  IF names = <<>> THEN st
  ELSE checkEach(checkCircular(st, reg, k, Head(names), path),
                 reg, k, Tail(names), path)

RECURSIVE missingDependencies(_, _, _)
missingDependencies(reg, k, names) ==
  IF names = <<>> THEN <<>>
  ELSE LET featureName == Head(names)
           missing == SelectSeq(k[featureName].dependencies,
                                LAMBDA dep : dep \notin Registered(reg))
       IN [i \in 1..Len(missing) |->
             [kind |-> "missing", feature |-> featureName, dep |-> missing[i]]]
          \o missingDependencies(reg, k, Tail(names))

\* validateDependencies without its second half (the walk for cycles)
validateDependencies_NoCycleCheck(reg, k) ==
  [valid |-> missingDependencies(reg, k, reg) = <<>>,
   errors |-> missingDependencies(reg, k, reg)]

validateDependencies(reg, k) ==
  LET st == checkEach([errors |-> missingDependencies(reg, k, reg),
                       visited |-> {}, visiting |-> {}],
                      reg, k, reg, <<>>)
  IN [valid |-> st.errors = <<>>, errors |-> st.errors]

\* recordError trimming at the wrong end: the newest records go
recordError_KeepsOldest(errs, error) ==
  SubSeq(Append(errs, error), 1, Min({Len(errs) + 1, ErrorCap}))

recordError(errs, error) ==
  LET pushed == Append(errs, error)
  IN IF Len(pushed) > ErrorCap
     THEN SubSeq(pushed, Len(pushed) - ErrorCap + 1, Len(pushed))
     ELSE pushed

clearFeatureErrors(errs, featureName) ==
  SelectSeq(errs, LAMBDA e : e.featureName # featureName)

clearAllErrors(errs) == <<>>

getHealthyFeatures(reg, fs) ==
  SelectSeq(reg, LAMBDA n : fs[n].state # "error" /\ fs[n].state # "disabled")

getProblematicFeatures(reg, fs) ==
  SelectSeq(reg, LAMBDA n : \/ fs[n].state = "error"
                            \/ fs[n].state = "disabled"
                            \/ fs[n].state = "fallback")

getByState(reg, fs, state) ==
  SelectSeq(reg, LAMBDA n : fs[n].state = state)

----------------------------------------------------------------------------
\* The world a run acts on, and the lifecycle calls as runs over it.
\* An in-flight call is [op, pc, caller, incs, errs]: pc names the hook it
\* awaits (or, for destroy, that its inner stop() has settled); incs and
\* errs count the retryCount increments and feature:error events made on
\* behalf of the call so far.

World ==
  [feat |-> feat, calls |-> calls, mgr |-> mgr, ev |-> <<>>,
   order |-> order, errors |-> errors, op |-> NoOp]

ctxOf(w, n) ==
  [f |-> w.feat[n], n |-> n, k |-> cfg[n], ev |-> w.ev, incs |-> 0]

\* put with retryCount held in one place for all features
put_SharedRetryCount(w, n, c) ==
  [w EXCEPT !.feat = [m \in DOMAIN @ |->
                        IF m = n THEN c.f
                        ELSE [@[m] EXCEPT !.retryCount = c.f.retryCount]],
            !.ev = c.ev]

put(w, n, c) == [w EXCEPT !.feat[n] = c.f, !.ev = c.ev]

hookOf(op) ==
  CASE op = "init" -> "onInit"
    [] op = "start" -> "onStart"
    [] op = "stop" -> "onStop"
    [] OTHER -> "onDestroy"

HookPcs == {"onInit", "onStart", "onStop", "onDestroy"}

NewCall(op, pc, caller) ==
  [op |-> op, pc |-> pc, caller |-> caller, incs |-> 0, errs |-> 0]

Op(op, n, outcome, incs, errs) ==
  [op |-> op, unit |-> n, outcome |-> outcome, incs |-> incs, errs |-> errs]

\* feature.init(ctx) / start(ctx) / stop() / destroy() up to the first await
invoke(w, n, op, caller) ==
  LET f == w.feat[n]
      c == ctxOf(w, n)
  IN IF op = "destroy"
     THEN IF f.state = "running"
          THEN \* await this.stop(): stop's guard passes, onStop is awaited
               [put(w, n, setState(c, "stopping")) EXCEPT
                  !.calls[n] = Append(@, NewCall("destroy", "onStop", caller)),
                  !.op = Op(op, n, "begin", 0, 0)]
          ELSE [w EXCEPT
                  !.calls[n] = Append(@, NewCall("destroy", "onDestroy", caller)),
                  !.op = Op(op, n, "begin", 0, 0)]
     ELSE IF opAllowed(f, op)
          THEN [put(w, n, setState(c, enteringState(op))) EXCEPT
                  !.calls[n] = Append(@, NewCall(op, hookOf(op), caller)),
                  !.op = Op(op, n, "begin", 0, 0)]
          ELSE \* logger.warn; return
               [w EXCEPT
                  !.op = Op(op, n, "noop", 0, 0)]

CountErrors(ev) ==
  Cardinality({i \in 1..Len(ev) : ev[i].e.type = "feature:error"})

\* the call calls[n][i] ends: resolved (threw = FALSE) or rejected
finish(w, n, i, c, threw) ==
  LET fr == w.calls[n][i]
  IN [put(w, n, c) EXCEPT
        !.calls[n] = RemoveAt(@, i),
        !.op = Op(fr.op, n, IF threw THEN "threw" ELSE "ok",
                  fr.incs + c.incs, fr.errs + CountErrors(c.ev))]

\* the call calls[n][i] goes on to await something else
advance(w, n, i, c, pc) ==
  LET fr == w.calls[n][i]
  IN [put(w, n, c) EXCEPT
        !.calls[n][i] = [fr EXCEPT !.pc = pc,
                                   !.incs = @ + c.incs,
                                   !.errs = @ + CountErrors(c.ev)],
        !.op = Op(fr.op, n, "step",
                  fr.incs + c.incs, fr.errs + CountErrors(c.ev))]

\* the hook awaited by calls[n][i] settles: the rest of init / start / stop
\* (with safeExecute's catch), or of destroy up to its next await
settle(w, n, i, ok) ==
  LET fr == w.calls[n][i]
      c == ctxOf(w, n)
  IN CASE fr.pc = "onInit" ->
            IF ok THEN finish(w, n, i, initSucceeded(c), FALSE)
            ELSE finish(w, n, i, handleError(c, "init"), TRUE)
       [] fr.pc = "onStart" ->
            IF ok THEN finish(w, n, i, startSucceeded(c), FALSE)
            ELSE finish(w, n, i, handleError(c, "start"), TRUE)
       [] fr.pc = "onStop" /\ fr.op = "stop" ->
            IF ok THEN finish(w, n, i, stopSucceeded(c), FALSE)
            ELSE finish(w, n, i, handleError(c, "stop"), TRUE)
       [] fr.pc = "onStop" /\ fr.op = "destroy" ->
            \* the inner stop() settles; destroy resumes in a later run
            IF ok THEN advance(w, n, i, stopSucceeded(c), "stopOk")
            ELSE advance(w, n, i, handleError(c, "stop"), "stopThrew")
       [] OTHER ->
            IF ok THEN finish(w, n, i, destroySucceeded(c), FALSE)
            ELSE finish(w, n, i, destroyFailed(c), TRUE)

\* destroy resumes after its inner stop(): onDestroy is awaited, or the
\* catch block runs and safeExecute handles the error once more
resume(w, n, i) ==
  LET fr == w.calls[n][i]
      c == ctxOf(w, n)
  IN IF fr.pc = "stopOk"
     THEN advance(w, n, i, c, "onDestroy")
     ELSE finish(w, n, i, destroyFailed(c), TRUE)

\* the callback scheduleRetry registered
retryFired(w, n, t) ==
  LET w1 == [w EXCEPT !.feat[n].timers = @ \ {t.id},
                      !.feat[n].pending = @ \ {t}]
  IN IF t.phase \in {"init", "start"}
     THEN invoke(w1, n, t.phase, "ext")
     ELSE [w1 EXCEPT !.op = Op("retry", n, "nothing", 0, 0)]

\* the wrapped callback of this.setTimeout / this.setInterval ran
callbackRan(w, n, kind, ok) ==
  LET c == ctxOf(w, n)
      c1 == IF ok THEN c ELSE handleError(c, kind)
  IN [put(w, n, c1) EXCEPT
        !.op = Op(kind, n, IF ok THEN "ok" ELSE "threw",
                  c1.incs, CountErrors(c1.ev))]

----------------------------------------------------------------------------
\* ChromeFlexFeatureManager (src/src/core/feature-manager.ts).  mgr.act and
\* mgr.deact are the local variables of the activateFeatures() and
\* deactivateFeatures() call in flight: the list iterated, the position in
\* it and the counters.  A loop runs until its next await of a hook.

IdlePass ==
  [on |-> FALSE, list |-> <<>>, idx |-> 0,
   done |-> 0, errors |-> 0, skipped |-> 0, then |-> "return"]

NewPass(list) == [IdlePass EXCEPT !.on = TRUE, !.list = list, !.idx = 1]

\* errorListeners: the feature:error listeners setupErrorMonitoring has put
\* on the bus; healthTimers: the intervals startHealthMonitoring has started
NoMgr ==
  [isInitialized |-> FALSE, act |-> IdlePass, deact |-> IdlePass,
   errorListeners |-> 0, healthTimers |-> 0]

NoOrder == [act |-> <<>>, stop |-> <<>>]

managerEvent(w, type, p) ==
  [w EXCEPT !.ev = Append(@, [e |-> [type |-> type, feature |-> "manager",
                                     done |-> p.done, skipped |-> p.skipped,
                                     errors |-> p.errors,
                                     total |-> Len(p.list)],
                              obs |-> "none"])]

\* shouldActivate without its test for the disabled state
shouldActivate_IgnoresDisabled(f, k) ==
  /\ k.enabled
  /\ ~(f.state = "error" /\ ~canRetry(f, k))
  /\ k.matches

shouldActivate(f, k) ==
  /\ k.enabled
  /\ ~(f.state = "error" /\ ~canRetry(f, k))
  /\ f.state # "disabled"
  /\ k.matches

RECURSIVE activateLoop(_)
RECURSIVE safeActivateFeature(_, _, _)
\* the for loop of activateFeatures(), from position mgr.act.idx
activateLoop(w) ==
  LET a == w.mgr.act
  IN IF a.idx > Len(a.list)
     THEN [managerEvent(w, "manager:features-activated", a) EXCEPT
             !.mgr.act = IdlePass]
     ELSE LET n == a.list[a.idx]
              f == w.feat[n]
          IN IF \/ f.state = "error" /\ ~canRetry(f, cfg[n])
                \/ f.state = "disabled"
                \/ ~shouldActivate(f, cfg[n])
             THEN activateLoop([w EXCEPT !.mgr.act.skipped = @ + 1,
                                         !.mgr.act.idx = @ + 1])
             ELSE safeActivateFeature(w, n, "init")

\* await feature.init(ctx); await feature.start(ctx), from the call of stage
safeActivateFeature(w, n, stage) ==
  LET w1 == invoke(w, n, stage, "activate")
  IN IF w1.op.outcome = "begin" THEN w1
     ELSE IF stage = "init" THEN safeActivateFeature(w, n, "start")
     ELSE activateLoop([w EXCEPT !.mgr.act.done = @ + 1,
                                 !.mgr.act.idx = @ + 1,
                                 !.order.act = Append(@, n)])

\* what the caller of deactivateFeatures() does once it has returned:
\* emergencyStop() clears isInitialized and announces the stop
afterDeactivate(w, then) ==
  IF then = "emergencyStop"
  THEN [w EXCEPT
          !.mgr.isInitialized = FALSE,
          !.ev = Append(@, [e |-> [type |-> "manager:emergency-stop",
                                   feature |-> "manager"],
                            obs |-> "none"])]
  ELSE w

RECURSIVE deactivateLoop(_)
\* the for loop of deactivateFeatures(), from position mgr.deact.idx
deactivateLoop(w) ==
  LET d == w.mgr.deact
  IN IF d.idx > Len(d.list)
     THEN afterDeactivate(
            [managerEvent(w, "manager:features-deactivated", d) EXCEPT
               !.mgr.deact = IdlePass],
            d.then)
     ELSE LET n == d.list[d.idx]
              w0 == [w EXCEPT !.order.stop = Append(@, n)]
              w1 == invoke(w0, n, "stop", "deactivate")
          IN IF w1.op.outcome = "begin" THEN w1
             ELSE invoke(w0, n, "destroy", "deactivate")

\* after() without the try/catch of the two loops: a rejected call ends
\* the pass
after_ThrowEndsPass(w, n, fr) ==
  IF w.op.outcome \notin {"ok", "threw"} THEN w
  ELSE IF fr.caller = "activate"
  THEN IF w.op.outcome = "threw"
       THEN [w EXCEPT !.mgr.act = IdlePass]
       ELSE IF fr.op = "init" THEN safeActivateFeature(w, n, "start")
       ELSE activateLoop([w EXCEPT !.mgr.act.done = @ + 1,
                                   !.mgr.act.idx = @ + 1,
                                   !.order.act = Append(@, n)])
  ELSE IF fr.caller = "deactivate"
  THEN IF w.op.outcome = "threw"
       THEN [w EXCEPT !.mgr.deact = IdlePass]
       ELSE IF fr.op = "stop" THEN invoke(w, n, "destroy", "deactivate")
       ELSE deactivateLoop([w EXCEPT !.mgr.deact.done = @ + 1,
                                     !.mgr.deact.idx = @ + 1])
  ELSE w

\* the call fr of feature n, made by a manager loop, has ended in w: the
\* loop goes on after its await
after(w, n, fr) ==
  IF w.op.outcome \notin {"ok", "threw"} THEN w
  ELSE IF fr.caller = "activate"
  THEN IF w.op.outcome = "threw"
       THEN activateLoop([w EXCEPT !.mgr.act.errors = @ + 1,
                                   !.mgr.act.idx = @ + 1])
       ELSE IF fr.op = "init" THEN safeActivateFeature(w, n, "start")
       ELSE activateLoop([w EXCEPT !.mgr.act.done = @ + 1,
                                   !.mgr.act.idx = @ + 1,
                                   !.order.act = Append(@, n)])
  ELSE IF fr.caller = "deactivate"
  THEN IF w.op.outcome = "threw"
       THEN deactivateLoop([w EXCEPT !.mgr.deact.errors = @ + 1,
                                     !.mgr.deact.idx = @ + 1])
       ELSE IF fr.op = "stop" THEN invoke(w, n, "destroy", "deactivate")
       ELSE deactivateLoop([w EXCEPT !.mgr.deact.done = @ + 1,
                                     !.mgr.deact.idx = @ + 1])
  ELSE w

activateFeatures(w, reg) ==
  IF ~w.mgr.isInitialized
  THEN [w EXCEPT !.op = Op("activateFeatures", "none", "noop", 0, 0)]
  ELSE activateLoop([w EXCEPT
         !.mgr.act = NewPass(getSortedFeatures(reg, cfg)),
         !.order.act = <<>>,
         !.op = Op("activateFeatures", "none", "ok", 0, 0)])

deactivateFeatures(w, reg, then) ==
  IF ~w.mgr.isInitialized
  THEN afterDeactivate(
         [w EXCEPT !.op = Op("deactivateFeatures", "none", "noop", 0, 0)],
         then)
  ELSE deactivateLoop([w EXCEPT
         !.mgr.deact =
            [NewPass(Reverse(getByState(reg, w.feat, "running")))
               EXCEPT !.then = then],
         !.order.stop = <<>>,
         !.op = Op("deactivateFeatures", "none", "ok", 0, 0)])

emergencyStop(w, reg) == deactivateFeatures(w, reg, "emergencyStop")

\* the test of performHealthCheck's recovery loop
\* (mutant) every problematic feature is reset
needsReset_AnyProblematic(f, k) ==
  f.state \in {"error", "disabled", "fallback"}

needsReset(f, k) == f.state = "error" /\ canRetry(f, k)

RECURSIVE recoverEach(_, _)
recoverEach(w, names) ==
  IF names = <<>> THEN w
  ELSE LET n == Head(names)
           w1 == IF needsReset(w.feat[n], cfg[n])
                 THEN put(w, n, reset(ctxOf(w, n)))
                 ELSE w
       IN recoverEach(w1, Tail(names))

performHealthCheck(w, reg) ==
  LET healthyFeatures == getHealthyFeatures(reg, w.feat)
      problematicFeatures == getProblematicFeatures(reg, w.feat)
      w1 == [w EXCEPT
               !.ev = Append(@, [e |-> [type |-> "manager:health-check",
                                        feature |-> "manager",
                                        healthy |-> Len(healthyFeatures),
                                        problematic |-> Len(problematicFeatures),
                                        totalErrors |-> Len(w.errors)],
                                 obs |-> "none"]),
               !.op = Op("performHealthCheck", "none", "ok", 0, 0)]
  IN recoverEach(w1, problematicFeatures)

----------------------------------------------------------------------------
\* Steps

TimerIdsOf(f) == f.timers \cup {t.id : t \in f.pending}

Within(w) ==
  /\ \A n \in DOMAIN w.feat :
       /\ Cardinality(TimerIdsOf(w.feat[n])) <= MaxTimers
       /\ w.feat[n].retryCount <= MaxFailures
       /\ Len(w.calls[n]) <= MaxCalls
  /\ Len(w.errors) <= MaxErrors

\* the listener setupErrorMonitoring subscribed to feature:error, run by
\* each of its registrations on each feature:error event of the run
RECURSIVE monitorErrors(_, _, _)
monitorErrors(errs, ev, listeners) ==
  IF ev = <<>> THEN errs
  ELSE LET e == Head(ev).e
           error == [featureName |-> e.feature, phase |-> e.phase, at |-> 0]
           once == recordError(errs, error)
           recorded == IF e.type # "feature:error" \/ listeners = 0 THEN errs
                       ELSE IF listeners = 1 THEN once
                       ELSE recordError(once, error)
       IN monitorErrors(recorded, Tail(ev), listeners)

\* what the manager's listeners (setupErrorMonitoring) emit for the events
\* ev of a run: manager:feature-disabled for a feature:error whose canRetry
\* is false, manager:feature-fallback for a feature:fallback; once per
\* registration
RECURSIVE managerEvents(_, _)
managerEvents(ev, listeners) ==
  IF ev = <<>> THEN <<>>
  ELSE LET e == Head(ev).e
           out == IF e.type = "feature:error" /\ ~e.canRetry
                  THEN <<[type |-> "manager:feature-disabled",
                          feature |-> e.feature,
                          reason |-> "max_retries_exceeded"]>>
                  ELSE IF e.type = "feature:fallback"
                  THEN <<[type |-> "manager:feature-fallback",
                          feature |-> e.feature, reason |-> e.reason]>>
                  ELSE <<>>
       IN (IF listeners = 0 THEN <<>>
           ELSE IF listeners = 1 THEN out
           ELSE out \o out)
          \o managerEvents(Tail(ev), listeners)

Commit(w) ==
  LET recorded == monitorErrors(w.errors, w.ev, w.mgr.errorListeners)
  IN /\ Within([w EXCEPT !.errors = recorded])
     /\ feat' = w.feat
     /\ calls' = w.calls
     /\ mgr' = w.mgr
     /\ order' = w.order
     /\ lastOp' = w.op
     /\ emitted' = w.ev
     /\ errors' = recorded
     /\ UNCHANGED <<cfg, features, sorted, bus, validation, now>>

InHook(n) == \E i \in 1..Len(calls[n]) : calls[n][i].pc \in HookPcs

\* a direct call of a lifecycle method (not by the manager)
Call(n, op) == Commit(invoke(World, n, op, "ext"))

HookSettles(n, i, ok) ==
  /\ i \in 1..Len(calls[n])
  /\ calls[n][i].pc \in HookPcs
  /\ Commit(after(settle(World, n, i, ok), n, calls[n][i]))

DestroyResumes(n, i) ==
  /\ i \in 1..Len(calls[n])
  /\ calls[n][i].pc \in {"stopOk", "stopThrew"}
  /\ Commit(after(resume(World, n, i), n, calls[n][i]))

RetryFires(n) ==
  \E t \in feat[n].pending :
    /\ t.kind = "retry"
    /\ Commit(retryFired(World, n, t))

TimerFires(n, ok) ==
  \E t \in feat[n].pending :
    /\ t.kind = "user"
    /\ Commit(callbackRan([World EXCEPT !.feat[n].pending = @ \ {t}],
                          n, "timer", ok))

IntervalFires(n, ok) ==
  /\ feat[n].intervals # {}
  /\ Commit(callbackRan(World, n, "interval", ok))

\* the subclass's code, running in a hook, registers resources
SetTimeout(n) ==
  /\ InHook(n)
  /\ LET id == FreshId(TimerIdsOf(feat[n]))
     IN Commit([World EXCEPT
          !.feat[n].pending = @ \cup {[id |-> id, kind |-> "user",
                                       phase |-> "timer", delay |-> 0]},
          !.feat[n].timers = @ \cup {id},
          !.op = Op("register", n, "ok", 0, 0)])

SetInterval(n) ==
  /\ InHook(n)
  /\ \E id \in IntervalIds \ feat[n].intervals :
       Commit([World EXCEPT
          !.feat[n].intervals = @ \cup {id},
          !.op = Op("register", n, "ok", 0, 0)])

AddCleanupTask(n) ==
  /\ InHook(n)
  /\ \E t \in CleanupIds \ feat[n].cleanupTasks :
       Commit([World EXCEPT
          !.feat[n].cleanupTasks = @ \cup {t},
          !.feat[n].ran[t] = 0,
          !.op = Op("register", n, "ok", 0, 0)])

Reset(n) ==
  Commit([put(World, n, reset(ctxOf(World, n))) EXCEPT
            !.op = Op("reset", n, "ok", 0, 0)])

----------------------------------------------------------------------------
\* Spec: one feature, driven directly

Configs ==
  [maxRetries : MaxRetriesChoices, retryDelay : RetryDelays,
   fallbackMode : BOOLEAN, priority : {0}, dependencies : {<<>>},
   enabled : {TRUE}, matches : {TRUE}]

Init ==
  /\ cfg \in [{"A"} -> Configs]
  /\ features = <<"A">>
  /\ feat = [n \in {"A"} |-> NewFeature]
  /\ calls = [n \in {"A"} |-> <<>>]
  /\ mgr = NoMgr
  /\ sorted = <<>>
  /\ lastOp = NoOp
  /\ emitted = <<>>
  /\ order = NoOrder
  /\ errors = <<>>
  /\ bus = NoBus
  /\ validation = NoValidation
  /\ now = 0

Next ==
  \/ \E n \in DOMAIN feat, op \in Phases : Call(n, op)
  \/ \E n \in DOMAIN feat, i \in 1..MaxCalls, ok \in BOOLEAN :
       HookSettles(n, i, ok)
  \/ \E n \in DOMAIN feat, i \in 1..MaxCalls : DestroyResumes(n, i)
  \/ \E n \in DOMAIN feat : RetryFires(n)
  \/ \E n \in DOMAIN feat : Reset(n)

Spec == Init /\ [][Next]_vars

\* SpecRes: the same, and the subclass registers timers, intervals and
\* cleanup tasks, whose callbacks run and may throw
NextRes ==
  \/ \E n \in DOMAIN feat, op \in Phases : Call(n, op)
  \/ \E n \in DOMAIN feat, i \in 1..MaxCalls, ok \in BOOLEAN :
       HookSettles(n, i, ok)
  \/ \E n \in DOMAIN feat, i \in 1..MaxCalls : DestroyResumes(n, i)
  \/ \E n \in DOMAIN feat : RetryFires(n)
  \/ \E n \in DOMAIN feat : Reset(n)
  \/ \E n \in DOMAIN feat, ok \in BOOLEAN : TimerFires(n, ok)
  \/ \E n \in DOMAIN feat, ok \in BOOLEAN : IntervalFires(n, ok)
  \/ \E n \in DOMAIN feat : SetTimeout(n)
  \/ \E n \in DOMAIN feat : SetInterval(n)
  \/ \E n \in DOMAIN feat : AddCleanupTask(n)

SpecRes == Init /\ [][NextRes]_vars

----------------------------------------------------------------------------
\* SpecSort: the registry alone.  Three features are constructed with
\* priorities and dependency lists of their own; they are registered and
\* unregistered in any order, and getSortedFeatures() is called.

Names == {"A", "B", "C"}

Priorities == {0, 10}

DepLists ==
  {<<>>} \cup {<<a>> : a \in Names}
         \cup {<<a, b>> : <<a, b>> \in {p \in Names \X Names : p[1] # p[2]}}

SortConfigs ==
  [maxRetries : {3}, retryDelay : RetryDelays, fallbackMode : {TRUE},
   priority : Priorities, dependencies : DepLists,
   enabled : {TRUE}, matches : {TRUE}]

registryEvent(type, n) ==
  <<[e |-> [type |-> type, feature |-> n], obs |-> Observed(feat[n])]>>

register(n) ==
  /\ n \notin Registered(features)
  /\ features' = Append(features, n)
  /\ emitted' = registryEvent("feature:registered", n)
  /\ lastOp' = Op("register", n, "ok", 0, 0)
  /\ sorted' = <<>>
  /\ validation' = NoValidation
  /\ UNCHANGED <<cfg, feat, calls, mgr, order, errors, bus, now>>

unregister(n) ==
  /\ n \in Registered(features)
  /\ features' = SelectSeq(features, LAMBDA m : m # n)
  /\ emitted' = registryEvent("feature:unregistered", n)
  /\ lastOp' = Op("unregister", n, "ok", 0, 0)
  /\ sorted' = <<>>
  /\ errors' = clearFeatureErrors(errors, n)
  /\ validation' = NoValidation
  /\ UNCHANGED <<cfg, feat, calls, mgr, order, bus, now>>

GetSortedFeatures ==
  /\ sorted' = getSortedFeatures(features, cfg)
  /\ lastOp' = Op("getSortedFeatures", "none", "ok", 0, 0)
  /\ emitted' = <<>>
  /\ UNCHANGED <<cfg, features, feat, calls, mgr, order, errors, bus,
                 validation, now>>

InitSort ==
  /\ cfg \in [Names -> SortConfigs]
  /\ features = <<>>
  /\ feat = [n \in Names |-> NewFeature]
  /\ calls = [n \in Names |-> <<>>]
  /\ mgr = NoMgr
  /\ sorted = <<>>
  /\ lastOp = NoOp
  /\ emitted = <<>>
  /\ order = NoOrder
  /\ errors = <<>>
  /\ bus = NoBus
  /\ validation = NoValidation
  /\ now = 0

NextSort ==
  \/ \E n \in Names : register(n)
  \/ \E n \in Names : unregister(n)
  \/ GetSortedFeatures

SpecSort == InitSort /\ [][NextSort]_vars

\* SpecVal: the registry alone, as in SpecSort, with validateDependencies()
\* called at any time.  A feature may be registered while features it
\* depends on are not.
ValidateDependencies ==
  /\ validation' = [called |-> TRUE,
                    valid |-> validateDependencies(features, cfg).valid,
                    errors |-> validateDependencies(features, cfg).errors]
  /\ lastOp' = Op("validateDependencies", "none", "ok", 0, 0)
  /\ emitted' = <<>>
  /\ UNCHANGED <<cfg, features, feat, calls, mgr, sorted, order, errors, bus,
                 now>>

NextVal ==
  \/ \E n \in Names : register(n)
  \/ \E n \in Names : unregister(n)
  \/ ValidateDependencies

SpecVal == InitSort /\ [][NextVal]_vars

----------------------------------------------------------------------------
\* SpecMgr: the manager drives two features.  initialize() validates the
\* registry and then registers an instance of every feature class;
\* activateFeatures() and deactivateFeatures() are called at any time, one
\* call of each in flight at most; hooks resolve or reject; retry timers
\* fire.  deactivateFeatures() calls destroy() only after stop() resolved,
\* so destroy() never finds the feature running here.

FeatureClasses == <<"A", "B">>

MgrConfigs(n) ==
  [maxRetries : {0, 2}, retryDelay : RetryDelays, fallbackMode : {TRUE},
   priority : Priorities,
   dependencies : {<<>>},
   enabled : {TRUE}, matches : {TRUE}]

RECURSIVE loadFeatures(_, _)
loadFeatures(reg, classes) ==
  IF classes = <<>> THEN reg
  ELSE loadFeatures(IF Head(classes) \in Registered(reg) THEN reg
                    ELSE Append(reg, Head(classes)),
                    Tail(classes))

\* the classes importAllFeatures() returns
Classes == SelectSeq(FeatureClasses, LAMBDA n : n \in DOMAIN feat)

setupErrorMonitoring(m) == [m EXCEPT !.errorListeners = @ + 1]

startHealthMonitoring(m) == [m EXCEPT !.healthTimers = @ + 1]

\* initialize() subscribing before it validates
initialize_MonitorsFirst(m, valid) ==
  IF m.isInitialized THEN m
  ELSE IF ~valid THEN [m EXCEPT !.errorListeners = @ + 1]
  ELSE [m EXCEPT !.isInitialized = TRUE, !.errorListeners = @ + 1,
                 !.healthTimers = @ + 1]

\* initialize() without its isInitialized check
initialize_Unguarded(m, valid) ==
  IF ~valid THEN m
  ELSE [m EXCEPT !.isInitialized = TRUE, !.errorListeners = @ + 1,
                 !.healthTimers = @ + 1]

\* the manager's fields after initialize(); valid is what
\* validateDependencies() returned
initialize(m, valid) ==
  IF m.isInitialized THEN m
  ELSE IF ~valid THEN m
  ELSE [startHealthMonitoring(setupErrorMonitoring(m))
          EXCEPT !.isInitialized = TRUE]

Initialize ==
  LET valid == validateDependencies(features, cfg).valid
      m == initialize(mgr, valid)
      new == SelectSeq(Classes, LAMBDA n : n \notin Registered(features))
  IN /\ m.errorListeners <= MaxInits
     /\ mgr' = m
     /\ IF ~m.isInitialized
        THEN /\ lastOp' = Op("initialize", "none", "threw", 0, 0)
             /\ emitted' = <<>>
             /\ UNCHANGED features
        ELSE IF m = mgr
        THEN /\ lastOp' = Op("initialize", "none", "returned", 0, 0)
             /\ emitted' = <<>>
             /\ UNCHANGED features
        ELSE /\ features' = loadFeatures(features, Classes)
             /\ lastOp' = Op("initialize", "none", "ok", 0, 0)
             /\ emitted' =
                  [i \in 1..Len(new) |->
                     registryEvent("feature:registered", new[i])[1]]
                  \o <<[e |-> [type |-> "manager:initialized",
                               feature |-> "manager",
                               featureCount |-> Len(features')],
                        obs |-> "none"]>>
     /\ UNCHANGED <<cfg, feat, calls, sorted, order, errors, bus, validation,
                    now>>

\* initialize() called on a manager that is not initialized
FirstInitialize == ~mgr.isInitialized /\ Initialize

\* the health timer fires
PerformHealthCheck ==
  /\ mgr.healthTimers > 0
  /\ Commit(performHealthCheck(World, features))

EmergencyStop ==
  /\ ~mgr.deact.on
  /\ Commit(emergencyStop(World, features))

ActivateFeatures ==
  /\ ~mgr.act.on
  /\ Commit(activateFeatures(World, features))

DeactivateFeatures ==
  /\ ~mgr.deact.on
  /\ Commit(deactivateFeatures(World, features, "return"))

InitMgr ==
  /\ cfg \in {k \in [SeqToSet(FeatureClasses) ->
                       UNION {MgrConfigs(n) : n \in SeqToSet(FeatureClasses)}] :
                \A n \in DOMAIN k : k[n] \in MgrConfigs(n)}
  /\ features = <<>>
  /\ feat = [n \in SeqToSet(FeatureClasses) |-> NewFeature]
  /\ calls = [n \in SeqToSet(FeatureClasses) |-> <<>>]
  /\ mgr = NoMgr
  /\ sorted = <<>>
  /\ lastOp = NoOp
  /\ emitted = <<>>
  /\ order = NoOrder
  /\ errors = <<>>
  /\ bus = NoBus
  /\ validation = NoValidation
  /\ now = 0

NextMgr ==
  \/ FirstInitialize
  \/ ActivateFeatures
  \/ DeactivateFeatures
  \/ \E n \in DOMAIN feat, i \in 1..MaxCalls, ok \in BOOLEAN :
       HookSettles(n, i, ok)
  \/ \E n \in DOMAIN feat : RetryFires(n)

SpecMgr == InitMgr /\ [][NextMgr]_vars

\* SpecHealth: the two features are activated and the health timer fires
\* at any time
NextHealth ==
  \/ FirstInitialize
  \/ ActivateFeatures
  \/ PerformHealthCheck
  \/ \E n \in DOMAIN feat, i \in 1..MaxCalls, ok \in BOOLEAN :
       HookSettles(n, i, ok)
  \/ \E n \in DOMAIN feat : RetryFires(n)

SpecHealth == InitMgr /\ [][NextHealth]_vars

\* SpecStop: one feature; the manager is stopped by emergencyStop() and
\* initialized again
InitStop ==
  /\ cfg \in [{"A"} -> MgrConfigs("A")]
  /\ features = <<>>
  /\ feat = [n \in {"A"} |-> NewFeature]
  /\ calls = [n \in {"A"} |-> <<>>]
  /\ mgr = NoMgr
  /\ sorted = <<>>
  /\ lastOp = NoOp
  /\ emitted = <<>>
  /\ order = NoOrder
  /\ errors = <<>>
  /\ bus = NoBus
  /\ validation = NoValidation
  /\ now = 0

NextStop ==
  \/ FirstInitialize
  \/ ActivateFeatures
  \/ EmergencyStop
  \/ \E n \in DOMAIN feat, i \in 1..MaxCalls, ok \in BOOLEAN :
       HookSettles(n, i, ok)
  \/ \E n \in DOMAIN feat : RetryFires(n)

SpecStop == InitStop /\ [][NextStop]_vars

----------------------------------------------------------------------------
\* SpecInit: initialize() and emergencyStop() called at any time on a
\* registry that features are also registered in and unregistered from
\* directly.  A feature may depend on the other one or on "C", which no
\* class provides.

InitConfigs(n) ==
  [maxRetries : {3}, retryDelay : RetryDelays, fallbackMode : {TRUE},
   priority : {0},
   dependencies : {<<>>, <<"C">>} \cup
                  {<<m>> : m \in SeqToSet(FeatureClasses) \ {n}},
   enabled : {TRUE}, matches : {TRUE}]

InitInit ==
  /\ cfg \in {k \in [SeqToSet(FeatureClasses) ->
                       UNION {InitConfigs(n) : n \in SeqToSet(FeatureClasses)}] :
                \A n \in DOMAIN k : k[n] \in InitConfigs(n)}
  /\ features = <<>>
  /\ feat = [n \in SeqToSet(FeatureClasses) |-> NewFeature]
  /\ calls = [n \in SeqToSet(FeatureClasses) |-> <<>>]
  /\ mgr = NoMgr
  /\ sorted = <<>>
  /\ lastOp = NoOp
  /\ emitted = <<>>
  /\ order = NoOrder
  /\ errors = <<>>
  /\ bus = NoBus
  /\ validation = NoValidation
  /\ now = 0

NextInit ==
  \/ Initialize
  \/ EmergencyStop
  \/ \E n \in DOMAIN feat : register(n)
  \/ \E n \in DOMAIN feat : unregister(n)

SpecInit == InitInit /\ [][NextInit]_vars

----------------------------------------------------------------------------
\* SpecAct: activateFeatures() passes over two features that may be
\* configured enabled: false and that end up disabled when their retries
\* are used up (no fallback mode).

ActConfigs ==
  [maxRetries : {0, 2}, retryDelay : RetryDelays, fallbackMode : {FALSE},
   priority : {0}, dependencies : {<<>>},
   enabled : BOOLEAN, matches : {TRUE}]

InitAct ==
  /\ cfg \in [SeqToSet(FeatureClasses) -> ActConfigs]
  /\ features = <<>>
  /\ feat = [n \in SeqToSet(FeatureClasses) |-> NewFeature]
  /\ calls = [n \in SeqToSet(FeatureClasses) |-> <<>>]
  /\ mgr = NoMgr
  /\ sorted = <<>>
  /\ lastOp = NoOp
  /\ emitted = <<>>
  /\ order = NoOrder
  /\ errors = <<>>
  /\ bus = NoBus
  /\ validation = NoValidation
  /\ now = 0

NextAct ==
  \/ FirstInitialize
  \/ ActivateFeatures
  \/ \E n \in DOMAIN feat, i \in 1..MaxCalls, ok \in BOOLEAN :
       HookSettles(n, i, ok)
  \/ \E n \in DOMAIN feat : RetryFires(n)

SpecAct == InitAct /\ [][NextAct]_vars

----------------------------------------------------------------------------
\* SpecErr: the registry's error history.  The history starts empty or as
\* earlier recordError calls left it, one short of the cap or at the cap;
\* recordError, clearFeatureErrors, clearAllErrors and unregister are then
\* called in any order.  Every record carries the time of its call.

MaxRecorded == 3
  \* recordError calls made after the initial history

HistoryLengths == {0, ErrorCap - 1, ErrorCap}

ErrorPhases == {"init", "start"}

\* the history l recordError calls leave, alternating between two features
History(l) ==
  [i \in 1..l |-> [featureName |-> IF i % 2 = 1 THEN "A" ELSE "B",
                   phase |-> "init", at |-> i]]

RecordError(n, phase) ==
  /\ now < ErrorCap + MaxRecorded
  /\ now' = now + 1
  /\ errors' = recordError(errors,
                           [featureName |-> n, phase |-> phase, at |-> now'])
  /\ lastOp' = Op("recordError", n, "ok", 0, 0)
  /\ emitted' = <<>>
  /\ UNCHANGED <<cfg, features, feat, calls, mgr, sorted, order, bus,
                 validation>>

ClearFeatureErrors(n) ==
  /\ errors' = clearFeatureErrors(errors, n)
  /\ lastOp' = Op("clearFeatureErrors", n, "ok", 0, 0)
  /\ emitted' = <<>>
  /\ UNCHANGED <<cfg, features, feat, calls, mgr, sorted, order, bus,
                 validation, now>>

ClearAllErrors ==
  /\ errors' = clearAllErrors(errors)
  /\ lastOp' = Op("clearAllErrors", "none", "ok", 0, 0)
  /\ emitted' = <<>>
  /\ UNCHANGED <<cfg, features, feat, calls, mgr, sorted, order, bus,
                 validation, now>>

InitErr ==
  /\ cfg = [n \in {"A", "B"} |-> CHOOSE k \in SortConfigs : TRUE]
  /\ features = <<"A", "B">>
  /\ feat = [n \in {"A", "B"} |-> NewFeature]
  /\ calls = [n \in {"A", "B"} |-> <<>>]
  /\ mgr = NoMgr
  /\ sorted = <<>>
  /\ lastOp = NoOp
  /\ emitted = <<>>
  /\ order = NoOrder
  /\ errors \in {History(l) : l \in HistoryLengths}
  /\ bus = NoBus
  /\ validation = NoValidation
  /\ now = ErrorCap

NextErr ==
  \/ \E n \in DOMAIN feat, phase \in ErrorPhases : RecordError(n, phase)
  \/ \E n \in DOMAIN feat : ClearFeatureErrors(n)
  \/ ClearAllErrors
  \/ \E n \in DOMAIN feat : unregister(n)

SpecErr == InitErr /\ [][NextErr]_vars

----------------------------------------------------------------------------
\* SpecFrame: two registered features driven directly, each through
\* init(), its hook, its retry timers, cleanup tasks and reset(), while the
\* registry is queried and changed and one error is recorded.

FrameConfigs ==
  [maxRetries : {2}, retryDelay : RetryDelays, fallbackMode : {TRUE},
   priority : {0}, dependencies : {<<>>},
   enabled : {TRUE}, matches : {TRUE}]

InitFrame ==
  /\ cfg \in [SeqToSet(FeatureClasses) -> FrameConfigs]
  /\ features = FeatureClasses
  /\ feat = [n \in SeqToSet(FeatureClasses) |-> NewFeature]
  /\ calls = [n \in SeqToSet(FeatureClasses) |-> <<>>]
  /\ mgr = NoMgr
  /\ sorted = <<>>
  /\ lastOp = NoOp
  /\ emitted = <<>>
  /\ order = NoOrder
  /\ errors = <<>>
  /\ bus = NoBus
  /\ validation = NoValidation
  /\ now = ErrorCap + MaxRecorded - 1

NextFrame ==
  \/ \E n \in DOMAIN feat : Call(n, "init")
  \/ \E n \in DOMAIN feat, i \in 1..MaxCalls, ok \in BOOLEAN :
       HookSettles(n, i, ok)
  \/ \E n \in DOMAIN feat : RetryFires(n)
  \/ \E n \in DOMAIN feat : Reset(n)
  \/ \E n \in DOMAIN feat : AddCleanupTask(n)
  \/ \E n \in DOMAIN feat : register(n)
  \/ \E n \in DOMAIN feat : unregister(n)
  \/ GetSortedFeatures
  \/ ValidateDependencies
  \/ \E n \in DOMAIN feat : RecordError(n, "init")

SpecFrame == InitFrame /\ [][NextFrame]_vars

----------------------------------------------------------------------------
\* SpecRetry: one feature whose onInit rejects on every attempt, under a
\* manager whose health timer fires at any time.  Retry timers that are
\* pending fire, and a hook that is awaited settles (weak fairness; for the
\* hook it is written out with HookAwaited, its enabling condition).  The
\* error history is cleared again and again (manager.clearAllErrors()), which
\* keeps it within MaxErrors and does not touch the feature.

RetryConfigs ==
  [maxRetries : {2, 3}, retryDelay : RetryDelays, fallbackMode : BOOLEAN,
   priority : {0}, dependencies : {<<>>},
   enabled : {TRUE}, matches : {TRUE}]

InitRetry ==
  /\ cfg \in [{"A"} -> RetryConfigs]
  /\ features = <<>>
  /\ feat = [n \in {"A"} |-> NewFeature]
  /\ calls = [n \in {"A"} |-> <<>>]
  /\ mgr = NoMgr
  /\ sorted = <<>>
  /\ lastOp = NoOp
  /\ emitted = <<>>
  /\ order = NoOrder
  /\ errors = <<>>
  /\ bus = NoBus
  /\ validation = NoValidation
  /\ now = 0

HookRejects == \E i \in 1..MaxCalls : HookSettles("A", i, FALSE)

\* HookRejects can take a step: a hook of A is awaited.
HookAwaited ==
  \E i \in 1..MaxCalls :
    /\ i \in 1..Len(calls["A"])
    /\ calls["A"][i].pc \in HookPcs
    /\ LET w == after(settle(World, "A", i, FALSE), "A", calls["A"][i])
       IN Within([w EXCEPT !.errors =
                    monitorErrors(w.errors, w.ev, w.mgr.errorListeners)])

NextRetry ==
  \/ FirstInitialize
  \/ ActivateFeatures
  \/ PerformHealthCheck
  \/ HookRejects
  \/ RetryFires("A")
  \/ ClearAllErrors

SpecRetry ==
  /\ InitRetry
  /\ [][NextRetry]_vars
  /\ ([]<>(~HookAwaited) \/ []<><<HookRejects>>_vars)
  /\ WF_vars(RetryFires("A"))
  /\ WF_vars(ClearAllErrors)

----------------------------------------------------------------------------
\* SpecBus: the event bus alone.  on, off, once, clear, emit and the
\* unsubscribe functions are called at any time, from outside or by the
\* listener an emit in progress is running; a running listener returns,
\* throws or rejects.

BusWithin(b) ==
  /\ Len(b.sets) <= MaxSets
  /\ Cardinality(b.unsubs) <= MaxUnsubs
  /\ \A id \in DOMAIN b.sets : Len(b.sets[id]) <= MaxEntries
  /\ Len(b.stack) <= MaxDepth

BusStep(b, op) ==
  /\ BusWithin(b)
  /\ bus' = compact(b)
  /\ lastOp' = op
  /\ UNCHANGED <<cfg, features, feat, calls, mgr, sorted, emitted, order,
                 errors, validation, now>>

BusOp(name) == [op |-> name, again |-> FALSE]

\* the caller keeps the unsubscribe function on() returns, or drops it
BusOn(l, keep) ==
  LET b == busOn(disturbed(bus), l)
      u == [set |-> b.map, l |-> l, called |-> FALSE]
  IN BusStep([b EXCEPT !.unsubs = IF keep THEN @ \cup {u} ELSE @],
             BusOp("bus"))

BusOff(l) == BusStep(busOff(disturbed(bus), l), BusOp("bus"))

BusOnce(w) ==
  /\ bus.runs[w] = 0
  /\ \A id \in DOMAIN bus.sets : \A i \in DOMAIN bus.sets[id] :
       bus.sets[id][i] # w
  /\ BusStep(busOn(disturbed(bus), w), BusOp("bus"))

BusUnsubscribe(u) ==
  /\ u \in bus.unsubs
  /\ LET b == unsubscribe(disturbed(bus), u)
     IN BusStep([b EXCEPT !.unsubs = (@ \ {u}) \cup
                                       {[u EXCEPT !.called = TRUE]}],
                [op |-> "unsubscribe", again |-> u.called])

BusClear == BusStep(busClear(disturbed(bus)), BusOp("bus"))

BusEmit == BusStep(busEmit(disturbed(bus)), BusOp("bus"))

ListenerReturns(outcome) ==
  /\ bus.stack # <<>>
  /\ BusStep(listenerReturned([bus EXCEPT !.done = NoEmit], outcome),
             BusOp("bus"))

InitBus ==
  /\ cfg = [n \in {"A"} |-> CHOOSE k \in Configs : TRUE]
  /\ features = <<>>
  /\ feat = [n \in {"A"} |-> NewFeature]
  /\ calls = [n \in {"A"} |-> <<>>]
  /\ mgr = NoMgr
  /\ sorted = <<>>
  /\ lastOp = BusOp("bus")
  /\ emitted = <<>>
  /\ order = NoOrder
  /\ errors = <<>>
  /\ bus \in {[NoBus EXCEPT !.impl = i] : i \in Impls}
  /\ validation = NoValidation
  /\ now = 0

NextBus ==
  \/ \E l \in Listeners, keep \in BOOLEAN : BusOn(l, keep)
  \/ \E l \in Listeners : BusOff(l)
  \/ \E w \in Wrappers : BusOnce(w)
  \/ \E u \in bus.unsubs : BusUnsubscribe(u)
  \/ BusClear
  \/ BusEmit
  \/ \E outcome \in {"ok", "throw", "reject"} : ListenerReturns(outcome)

SpecBus == InitBus /\ [][NextBus]_vars

----------------------------------------------------------------------------
\* Reading the last step

StateChangesTo(ev, n, newState) ==
  {i \in 1..Len(ev) : /\ ev[i].e.type = "feature:state-changed"
                      /\ ev[i].e.feature = n
                      /\ ev[i].e.newState = newState}

EventsOf(ev, n, type) ==
  {i \in 1..Len(ev) : ev[i].e.type = type /\ ev[i].e.feature = n}

RetryTimers(f, phase) ==
  {t \in f.pending : t.kind = "retry" /\ t.phase = phase}

\* the step was the firing of retry timer t of feature n
RetryFiredStep(n, t) ==
  /\ t \in feat[n].pending
  /\ t.kind = "retry"
  /\ t \notin feat'[n].pending
  /\ lastOp'.unit = n
  /\ lastOp'.outcome \in {"begin", "noop", "nothing"}

\* the step handled an error of feature n (handleError ran)
HandledError(n) == EventsOf(emitted, n, "feature:error") # {}

EndState(k) == IF k.fallbackMode THEN "fallback" ELSE "disabled"

----------------------------------------------------------------------------
\* The dependency graph among the registered features

DependsOn(n, d) ==
  /\ n \in Registered(features)
  /\ d \in Registered(features)
  /\ d \in SeqToSet(cfg[n].dependencies)

RECURSIVE Reaches(_, _, _)
Reaches(n, d, steps) ==
  /\ steps > 0
  /\ \/ DependsOn(n, d)
     \/ \E m \in Registered(features) :
          DependsOn(n, m) /\ Reaches(m, d, steps - 1)

Acyclic ==
  \A n \in Registered(features) : ~Reaches(n, n, Len(features))

PositionIn(s, n) == CHOOSE i \in 1..Len(s) : s[i] = n

\* the last step was a call of getSortedFeatures()
SortedNow == lastOp.op = "getSortedFeatures"

\* C1: when the dependency graph is acyclic, the sequence returned by
\* getSortedFeatures() has every feature after all the registered features
\* it depends on, whatever the priorities.
C1_DependenciesFirst ==
  (SortedNow /\ Acyclic) =>
    \A n \in Registered(features), d \in Registered(features) :
      DependsOn(n, d) => PositionIn(sorted, d) < PositionIn(sorted, n)

\* s is the sequence of the elements of t that occur in s, in t's order
\* reversed
ReverseOrderOf(s, t) ==
  \A i \in 1..Len(s), j \in 1..Len(s) :
    (i < j /\ s[i] \in SeqToSet(t) /\ s[j] \in SeqToSet(t)) =>
      PositionIn(t, s[i]) > PositionIn(t, s[j])

\* C2: deactivateFeatures() calls stop on the running features in the reverse
\* of the order in which the last activateFeatures() activated them.
C2_StopsInReverseActivationOrder ==
  (~mgr.act.on /\ order.stop # <<>>) => ReverseOrderOf(order.stop, order.act)

----------------------------------------------------------------------------
\* C3 (as claimed): with maxRetries = 2, after the second consecutive failure
\* (the last one of init) the unit is still in error with a third init
\* attempt scheduled; it has not entered fallback or disabled.
C3_ThirdAttemptScheduled ==
  \A n \in DOMAIN feat :
    (/\ cfg[n].maxRetries = 2
     /\ lastOp = Op("init", n, "threw", 1, 1)
     /\ feat[n].retryCount = 2)
    => /\ feat[n].state = "error"
       /\ RetryTimers(feat[n], "init") # {}

\* C3 (amended): with maxRetries = 2 the unit gets two attempts of init.  A
\* first failure (retryCount 0 -> 1) leaves it in error with a retry of init
\* scheduled; a second failure (1 -> 2) moves it to fallback (disabled when
\* fallback mode is off) with no further attempt scheduled; an attempt that
\* succeeds ends in initialized with retryCount 0.
C3_TwoAttempts ==
  [][\A n \in DOMAIN feat :
       (cfg[n].maxRetries = 2 /\ lastOp'.unit = n /\ lastOp'.op = "init")
       => /\ (lastOp'.outcome = "threw" /\ feat[n].retryCount = 0)
               => /\ feat'[n].retryCount = 1
                  /\ feat'[n].state = "error"
                  /\ RetryTimers(feat'[n], "init") # {}
          /\ (lastOp'.outcome = "threw" /\ feat[n].retryCount = 1)
               => /\ feat'[n].retryCount = 2
                  /\ feat'[n].state = EndState(cfg[n])
                  /\ RetryTimers(feat'[n], "init") \subseteq feat[n].pending
          /\ lastOp'.outcome = "ok"
               => /\ feat'[n].state = "initialized"
                  /\ feat'[n].retryCount = 0]_vars

C3_Witness ==
  \E n \in DOMAIN feat :
    /\ cfg[n].maxRetries = 2
    /\ lastOp = Op("init", n, "threw", 1, 1)
    /\ feat[n].retryCount = 2
    /\ feat[n].state \in {"fallback", "disabled"}

SuccessState(phase) ==
  CASE phase = "init" -> "initialized"
    [] phase = "start" -> "running"
    [] phase = "stop" -> "stopped"
    [] OTHER -> "idle"

C5_ResetOnSamePhaseSuccess ==
  [][\A n \in DOMAIN feat :
       lastOp'.op # "reset"
       => /\ feat'[n].retryCount < feat[n].retryCount
               => /\ feat'[n].retryCount = 0
                  /\ feat[n].lastError \in Phases
                  /\ StateChangesTo(emitted', n,
                                    SuccessState(feat[n].lastError)) # {}
          /\ (/\ feat[n].retryCount > 0
              /\ feat[n].lastError \in Phases
              /\ StateChangesTo(emitted', n,
                                SuccessState(feat[n].lastError)) # {})
               => feat'[n].retryCount = 0]_vars

\* C5 (amended): apart from reset(), retryCount changes only by growing or
\* by returning to 0, and it returns to 0 exactly when init or start
\* completes successfully, whichever phase failed before; a successful stop
\* or destroy leaves it as it was.
C5_ResetOnInitOrStartSuccess ==
  [][\A n \in DOMAIN feat :
       lastOp'.op # "reset"
       => LET up == StateChangesTo(emitted', n, "initialized")
                      \cup StateChangesTo(emitted', n, "running")
              down == StateChangesTo(emitted', n, "stopped")
                        \cup StateChangesTo(emitted', n, "idle")
          IN /\ feat'[n].retryCount < feat[n].retryCount
                  => (feat'[n].retryCount = 0 /\ up # {})
             /\ up # {} => feat'[n].retryCount = 0
             /\ (down # {} /\ EventsOf(emitted', n, "feature:error") = {})
                  => feat'[n].retryCount = feat[n].retryCount]_vars

C5_Witness ==
  \E n \in DOMAIN feat :
    /\ lastOp = Op("start", n, "ok", 0, 0)
    /\ feat[n].lastError = "init"
    /\ feat[n].state = "running"
    /\ feat[n].retryCount = 0
    /\ feat[n].pending # {}

\* C6: init called outside idle / error, start outside initialized / stopped
\* / error, stop outside running / error returns normally, leaves state,
\* retryCount and lastError as they were, awaits no hook and emits nothing.
C6_DisallowedCallIsNoOp ==
  [][\A n \in DOMAIN feat :
       (/\ lastOp'.unit = n
        /\ lastOp'.outcome \in {"begin", "noop"}
        /\ \/ lastOp'.op = "init" /\ feat[n].state \notin {"idle", "error"}
           \/ lastOp'.op = "start"
                /\ feat[n].state \notin {"initialized", "stopped", "error"}
           \/ lastOp'.op = "stop" /\ feat[n].state \notin {"running", "error"})
       => /\ lastOp'.outcome = "noop"
          /\ feat'[n].state = feat[n].state
          /\ feat'[n].retryCount = feat[n].retryCount
          /\ feat'[n].lastError = feat[n].lastError
          /\ calls' = calls
          /\ emitted' = <<>>]_vars

C6_Witness ==
  \E n \in DOMAIN feat :
    /\ lastOp = Op("init", n, "noop", 0, 0)
    /\ feat[n].state = "running"

\* C7: once a unit is disabled, no step other than reset() changes its state.
C7_DisabledStays ==
  [][\A n \in DOMAIN feat :
       (feat[n].state = "disabled" /\ lastOp'.op # "reset")
       => feat'[n].state = "disabled"]_vars

\* C8: when the handling of a failure leaves retryCount >= maxRetries, the
\* unit ends it in fallback if fallback mode is on and in disabled
\* otherwise, with exactly one feature:fallback event in the first case and
\* none in the second, and no retry timer is added.
C8_ExhaustedEndsInFallbackOrDisabled ==
  [][\A n \in DOMAIN feat :
       (/\ EventsOf(emitted', n, "feature:error") # {}
        /\ lastOp'.unit = n
        /\ feat'[n].retryCount >= cfg[n].maxRetries)
       => /\ feat'[n].state = EndState(cfg[n])
          /\ Cardinality(EventsOf(emitted', n, "feature:fallback"))
               = (IF cfg[n].fallbackMode THEN 1 ELSE 0)
          /\ feat'[n].pending \subseteq feat[n].pending]_vars

C8_Witness ==
  \E n \in DOMAIN feat :
    /\ HandledError(n)
    /\ feat[n].retryCount >= cfg[n].maxRetries
    /\ feat[n].state = "fallback"
    /\ Cardinality(EventsOf(emitted, n, "feature:fallback")) = 1

C10_CleanWhenFallbackDispatched ==
  \A n \in DOMAIN feat : \A i \in StateChangesTo(emitted, n, "fallback") :
    /\ emitted[i].obs.pending = {}
    /\ emitted[i].obs.intervals = {}
    /\ emitted[i].obs.cleanupTasks = {}
    /\ \A t \in CleanupIds : emitted[i].obs.ran[t] <= 1

----------------------------------------------------------------------------
----------------------------------------------------------------------------
\* the listeners registered on the bus, in the order an emit calls them
BusListeners == IF bus.map = 0 THEN <<>> ELSE Live(bus.sets[bus.map])

\* C12: an emit whose listeners do nothing but return, throw or reject calls
\* every listener registered for the type exactly once, whichever of them
\* fail, and returns normally.
C12_EveryListenerCalledOnce ==
  (bus.done.ended /\ bus.done.quiet) =>
    /\ bus.done.missed = {}
    /\ ~bus.done.extra
    /\ ~bus.done.threw

\* an emit with two listeners, one of which failed, has just returned
C12_Witness ==
  /\ bus.done.ended
  /\ bus.done.quiet
  /\ bus.done.failed
  /\ bus.done.missed = {}
  /\ Len(BusListeners) = 2

\* C13: the listeners an emit calls are exactly those registered when it was
\* called: none added during the dispatch, and every one that was removed
\* during the dispatch before its turn.
C13_DispatchOverSnapshot ==
  bus.done.ended => (bus.done.missed = {} /\ ~bus.done.extra)

\* C14: a call of an unsubscribe function that has been called before leaves
\* the listeners registered on the bus as they are.
C14_UnsubscribeIdempotent ==
  [][(lastOp'.op = "unsubscribe" /\ lastOp'.again) =>
       BusListeners' = BusListeners]_vars

\* C15: the listener given to once() is called at most once, and once it has
\* been called its wrapper is no longer registered.
C15_OnceAtMostOnce ==
  \A w \in Wrappers :
    /\ bus.runs[w] <= 1
    /\ bus.runs[w] >= 1 => w \notin SeqToSet(BusListeners)

----------------------------------------------------------------------------
\* The dependency graph of the registry, read off the registered features'
\* configs: an edge <<n, d>> for every name d in the dependencies of a
\* registered feature n.

DependencyEdges ==
  {<<n, cfg[n].dependencies[i]>> :
     <<n, i>> \in {p \in Registered(features) \X (1..2) :
                     p[2] <= Len(cfg[p[1]].dependencies)}}

\* the edges of the closed walk n1 -> n2 -> ... -> nk -> n1
CycleEdges(c) ==
  {<<c[i], c[(i % Len(c)) + 1]>> : i \in 1..Len(c)}

\* the distinct cycles of the graph, each as its set of edges
DistinctCycles ==
  {CycleEdges(c) :
     c \in {d \in UNION {[1..l -> Names] : l \in 1..Cardinality(Names)} :
              /\ \A i, j \in DOMAIN d : i # j => d[i] # d[j]
              /\ CycleEdges(d) \subseteq DependencyEdges}}

\* the cycle a "Circular dependency: p1 -> ... -> pm" entry closes: the walk
\* from the first occurrence of pm to the end
ReportedCycle(path) ==
  LET from == CHOOSE i \in 1..Len(path) :
                /\ path[i] = path[Len(path)]
                /\ \A j \in 1..(i - 1) : path[j] # path[Len(path)]
  IN {<<path[i], path[i + 1]>> : i \in from..(Len(path) - 1)}

MissingReferences ==
  {e \in DependencyEdges : e[2] \notin Registered(features)}

MissingEntries(e) ==
  {j \in 1..Len(validation.errors) :
     validation.errors[j] =
       [kind |-> "missing", feature |-> e[1], dep |-> e[2]]}

\* C16: validateDependencies() returns valid = true exactly when every
\* declared dependency is registered and the dependency graph has no cycle,
\* and its errors hold exactly one "depends on" entry for each reference to
\* an unregistered dependency (and no such entry for anything else).
C16_ValidIffCompleteAndAcyclic ==
  validation.called =>
    /\ validation.valid <=> (MissingReferences = {} /\ DistinctCycles = {})
    /\ \A e \in MissingReferences : Cardinality(MissingEntries(e)) = 1
    /\ \A j \in 1..Len(validation.errors) :
         validation.errors[j].kind = "missing" =>
           <<validation.errors[j].feature, validation.errors[j].dep>>
             \in MissingReferences

\* a call on a registry with a missing dependency and a cycle at once
C16_Witness ==
  /\ validation.called
  /\ ~validation.valid
  /\ Cardinality(MissingReferences) = 2
  /\ DistinctCycles # {}
  /\ \A e \in MissingReferences : Cardinality(MissingEntries(e)) = 1

\* C17: validateDependencies() reports at least one "Circular dependency"
\* entry for each distinct cycle of the dependency graph.
C17_EveryCycleReported ==
  validation.called =>
    \A cyc \in DistinctCycles :
      \E j \in 1..Len(validation.errors) :
        /\ validation.errors[j].kind = "circular"
        /\ ReportedCycle(validation.errors[j].path) = cyc

\* C18: the error history never holds more than the cap of 100 records, and
\* a recordError call on a full history removes the oldest records only:
\* what remains is the end of the old history, in its order, followed by the
\* new record.
C18_HistoryCappedOldestEvicted ==
  [][/\ Len(errors') <= ErrorCap
     /\ lastOp'.op = "recordError" =>
          /\ Len(errors') = Min({Len(errors) + 1, ErrorCap})
          /\ errors'[Len(errors')].featureName = lastOp'.unit
          /\ errors'[Len(errors')].at = now'
          /\ SubSeq(errors', 1, Len(errors') - 1) =
               SubSeq(errors, Len(errors) - Len(errors') + 2, Len(errors))]_vars

\* the history is full and holds records of the initial history and of
\* three later calls: the three oldest have been evicted
C18_Witness ==
  /\ lastOp.op = "recordError"
  /\ Len(errors) = ErrorCap
  /\ errors[1].at = MaxRecorded + 1
  /\ errors[ErrorCap].at = ErrorCap + MaxRecorded

\* C19: every lifecycle-hook failure (one feature:error event) adds exactly
\* one record to the registry's error history, whatever manager operations
\* came before, emergencyStop() followed by initialize() included.
C19_EachFailureRecordedOnce ==
  [][Len(errors') - Len(errors) = CountErrors(emitted')]_vars

\* C20: getHealthyFeatures() and getProblematicFeatures() partition the
\* registered features: each is in exactly one of the two lists, and it is in
\* the problematic one exactly when its state is error, disabled or fallback.
C20_HealthyProblematicPartition ==
  \A n \in Registered(features) :
    /\ (n \in SeqToSet(getHealthyFeatures(features, feat)))
         # (n \in SeqToSet(getProblematicFeatures(features, feat)))
    /\ (n \in SeqToSet(getProblematicFeatures(features, feat)))
         <=> feat[n].state \in {"error", "disabled", "fallback"}

\* C21: when the dependency graph is invalid (a missing dependency or a
\* cycle), initialize() throws and changes nothing: the manager stays
\* uninitialized, no feature is registered or touched, no listener is
\* subscribed and no health timer is started.
C21_InvalidGraphAbortsInitialize ==
  [][(/\ lastOp'.op = "initialize"
      /\ ~mgr.isInitialized
      /\ (MissingReferences # {} \/ DistinctCycles # {}))
       => /\ lastOp'.outcome = "threw"
          /\ ~mgr'.isInitialized
          /\ mgr'.errorListeners = mgr.errorListeners
          /\ mgr'.healthTimers = mgr.healthTimers
          /\ features' = features
          /\ feat' = feat
          /\ calls' = calls
          /\ emitted' = <<>>]_vars

\* initialize() has thrown on a registry holding both features, after an
\* earlier initialize() had succeeded
C21_Witness ==
  /\ lastOp.op = "initialize"
  /\ lastOp.outcome = "threw"
  /\ Len(features) = 2
  /\ mgr.errorListeners = 1
  /\ DistinctCycles # {}

\* C22: initialize() on an initialized manager does nothing: no feature is
\* registered, no listener subscribed, no timer started, no event emitted.
C22_SecondInitializeIsNoOp ==
  [][(lastOp'.op = "initialize" /\ mgr.isInitialized)
       => /\ mgr' = mgr
          /\ features' = features
          /\ feat' = feat
          /\ emitted' = <<>>]_vars

\* initialize() has returned at once although a feature was missing from
\* the registry
C22_Witness ==
  /\ lastOp.op = "initialize"
  /\ lastOp.outcome = "returned"
  /\ mgr.isInitialized
  /\ Len(features) < 2

\* the summaries of the given type among the events of the last step
Summaries(ev, type) ==
  {ev[i].e : i \in {j \in 1..Len(ev) : ev[j].e.type = type}}

BeganByManager(n) ==
  \E i \in DOMAIN calls'[n] :
    /\ calls'[n][i].caller = "activate"
    /\ \A j \in DOMAIN calls[n] : calls[n][j] # calls'[n][i]

\* the features this step's part of an activation pass counted as activated
NewlyActivated ==
  IF mgr.act.on
  THEN {order'.act[i] : i \in (Len(order.act) + 1)..Len(order'.act)}
  ELSE IF mgr'.act.on \/ Summaries(emitted', "manager:features-activated") # {}
  THEN SeqToSet(order'.act)
  ELSE {}

\* C24: a feature that is disabled, or in error with no retry left, or
\* configured enabled: false gets false from shouldActivate(), and an
\* activation pass reaching it calls neither init nor start on it (it is not
\* counted as activated).
C24_UnfitFeaturesNeverActivated ==
  [][\A n \in DOMAIN feat :
       (\/ feat[n].state = "disabled"
        \/ feat[n].state = "error" /\ feat[n].retryCount >= cfg[n].maxRetries
        \/ ~cfg[n].enabled)
         => /\ ~shouldActivate(feat[n], cfg[n])
            /\ ~BeganByManager(n)
            /\ n \notin NewlyActivated]_vars

\* a pass has skipped a disabled feature and activated the other one
C24_Witness ==
  /\ \E e \in Summaries(emitted, "manager:features-activated") :
       e.skipped = 1 /\ e.done = 1
  /\ \E n \in DOMAIN feat :
       /\ feat[n].state = "disabled"
       /\ cfg[n].enabled
       /\ n \notin SeqToSet(order.act)

\* a lifecycle call the manager made on m is in flight after this step
InFlightByManager(m) ==
  \E j \in DOMAIN calls'[m] : calls'[m][j].caller \in {"activate", "deactivate"}

\* C25: the manager never begins init or start on a feature while a call it
\* made on another feature (init, start, stop or destroy) is still in
\* flight.
C25_ManagerCallsOneFeatureAtATime ==
  [][\A n \in DOMAIN feat :
       BeganByManager(n) =>
         \A m \in DOMAIN feat \ {n} : ~InFlightByManager(m)]_vars

\* C26: getSortedFeatures() returns, for every dependency graph (cycles,
\* self-dependencies and dependencies on unregistered names included), a
\* list that holds every registered feature exactly once.
C26_SortedHoldsEveryFeatureOnce ==
  lastOp.op = "getSortedFeatures" =>
    /\ Len(sorted) = Len(features)
    /\ SeqToSet(sorted) = Registered(features)

\* a call on three registered features that form a cycle, one of them
\* depending on itself as well
C26_Witness ==
  /\ lastOp.op = "getSortedFeatures"
  /\ Len(sorted) = 3
  /\ Cardinality(DistinctCycles) >= 2
  /\ \E n \in Names : <<n, n>> \in DependencyEdges

\* this step is an operation of the registry
RegistryStep ==
  \/ lastOp'.op \in {"unregister", "getSortedFeatures",
                     "validateDependencies", "recordError"}
  \/ Summaries(emitted', "feature:registered") # {}

\* C27: a step of one feature (hook failure, retry, fallback entry, reset,
\* cleanup) changes no field of any other feature, and a registry operation
\* changes no field of any feature.
C27_FeaturesChangeOnlyThemselves ==
  [][/\ \A m \in DOMAIN feat :
          feat'[m] # feat[m] => (lastOp'.unit = m /\ ~RegistryStep)
     /\ RegistryStep => feat' = feat]_vars

\* one feature has entered fallback, its cleanup task run, while the other
\* still waits for its retry timer and holds its cleanup task
C27_Witness ==
  \E n \in DOMAIN feat, m \in DOMAIN feat :
    /\ lastOp.unit = n
    /\ feat[n].state = "fallback"
    /\ feat[n].ran[1] = 1
    /\ feat[m].state = "error"
    /\ feat[m].retryCount = 1
    /\ feat[m].timers # {}
    /\ feat[m].cleanupTasks # {}

\* C28: when stop() has completed (state stopped), and when destroy() has
\* completed, the feature holds no timer and no interval and every cleanup
\* task it had registered has been run.
C28_StoppedMeansCleanedUp ==
  \A n \in DOMAIN feat :
    (/\ lastOp.unit = n
     /\ lastOp.op \in {"stop", "destroy"}
     /\ lastOp.outcome = "ok")
      => /\ feat[n].timers = {}
         /\ feat[n].pending = {}
         /\ feat[n].intervals = {}
         /\ feat[n].cleanupTasks = {}

\* C29: a feature whose hook fails on every attempt ends up in fallback or
\* disabled: once it is in error, retries, health sweeps and activation
\* passes lead it there after finitely many attempts.
C29_FailingFeatureGivesUp ==
  (feat["A"].state = "error")
    ~> (feat["A"].state \in {"fallback", "disabled"})

FeatureStates ==
  {"idle", "initializing", "initialized", "starting", "running", "stopping",
   "stopped", "error", "fallback", "disabled"}

\* The states from which the lifecycle allows newState to be entered; the
\* entries into error and idle are not restricted here.
EdgeSources(newState) ==
  CASE newState = "initialized" -> {"initializing"}
    [] newState = "running" -> {"starting"}
    [] newState = "stopped" -> {"stopping"}
    [] newState \in {"fallback", "disabled"} -> {"error"}
    [] newState = "initializing" -> {"idle", "error"}
    [] newState = "starting" -> {"initialized", "stopped", "error"}
    [] newState = "stopping" -> {"running", "error"}
    [] OTHER -> FeatureStates

\* C30: every state change a step makes follows the lifecycle edge set: the
\* state it leaves is one from which the state it enters may be entered.
C30_StateChangesFollowEdges ==
  \A i \in 1..Len(emitted) :
    emitted[i].e.type = "feature:state-changed"
      => emitted[i].e.oldState \in EdgeSources(emitted[i].e.newState)

\* neither feature depends on the other, directly or through others
Unrelated(a, b) ==
  /\ a # b
  /\ ~Reaches(a, b, Len(features))
  /\ ~Reaches(b, a, Len(features))

\* C31: of two registered features with no dependency relation between
\* them, getSortedFeatures() places the one with the strictly higher
\* priority first.
C31_HigherPriorityFirst ==
  SortedNow =>
    \A a \in Registered(features), b \in Registered(features) :
      (Unrelated(a, b) /\ cfg[a].priority > cfg[b].priority)
        => PositionIn(sorted, a) < PositionIn(sorted, b)

\* two unrelated features, the one registered later has the higher priority
\* and was moved to the front
C31_Witness ==
  /\ SortedNow
  /\ \E a \in Registered(features), b \in Registered(features) :
       /\ Unrelated(a, b)
       /\ cfg[a].priority > cfg[b].priority
       /\ PositionIn(features, b) < PositionIn(features, a)
       /\ PositionIn(sorted, a) < PositionIn(sorted, b)

\* C32: reset() sets retryCount to 0 and clears lastError; from error it
\* moves the feature to idle with one state-changed event, and from every
\* other state it leaves the state alone and emits nothing.
C32_ResetOnlyLeavesError ==
  [][\A n \in DOMAIN feat :
       (lastOp'.op = "reset" /\ lastOp'.unit = n) =>
         /\ feat'[n].retryCount = 0
         /\ feat'[n].lastError = "none"
         /\ IF feat[n].state = "error"
            THEN /\ feat'[n].state = "idle"
                 /\ Len(emitted') = 1
                 /\ emitted'[1].e.type = "feature:state-changed"
                 /\ emitted'[1].e.oldState = "error"
                 /\ emitted'[1].e.newState = "idle"
            ELSE /\ feat'[n].state = feat[n].state
                 /\ emitted' = <<>>]_vars

\* reset() has just taken a feature out of error
C32_Witness ==
  /\ lastOp.op = "reset"
  /\ Len(emitted) = 1
  /\ emitted[1].e.oldState = "error"
  /\ feat[lastOp.unit].state = "idle"

\* what a listener sees of a feature whose resources have been cleaned up
CleanedUp(obs) ==
  /\ obs.pending = {}
  /\ obs.intervals = {}
  /\ obs.cleanupTasks = {}

C34_ErrorStateCanRetry ==
  \A n \in DOMAIN feat :
    feat[n].state = "error" => feat[n].retryCount < cfg[n].maxRetries

\* a failure has left a feature in error one failure short of its last
C34_Witness ==
  \E n \in DOMAIN feat :
    /\ lastOp.unit = n
    /\ lastOp.outcome = "threw"
    /\ feat[n].state = "error"
    /\ feat[n].retryCount + 1 = cfg[n].maxRetries

\* emergencyStop() has completed since the manager was last initialized
EmergencyStopped ==
  /\ ~mgr.isInitialized
  /\ mgr.errorListeners > 0
  /\ ~mgr.deact.on

\* C35: once emergencyStop() has completed, and until initialize() is
\* called again, no feature is running and no feature becomes initializing
\* or starting; a retry timer left pending does not activate its feature.
C35_StoppedManagerStaysStopped ==
  [][EmergencyStopped' =>
       \A n \in DOMAIN feat :
         /\ feat'[n].state # "running"
         /\ (EmergencyStopped /\ feat'[n].state \in {"initializing", "starting"})
              => feat'[n].state = feat[n].state]_vars

\* C36: whatever initialize() and emergencyStop() calls have been made, the
\* manager holds at most one pair of feature:error / feature:fallback
\* subscriptions and at most one health timer.
C36_OneSubscriptionOneTimer ==
  /\ mgr.errorListeners <= 1
  /\ mgr.healthTimers <= 1

\* C37: when initialize() has completed successfully, the dependency graph
\* of the features then registered, those it loaded included, is valid.
C37_InitializedGraphIsValid ==
  (lastOp.op = "initialize" /\ lastOp.outcome = "ok")
    => validateDependencies(features, cfg).valid

\* the manager events the listeners emitted in the last step
ManagerEmitted == managerEvents(emitted, mgr.errorListeners)

\* C38: manager:feature-disabled is emitted for a feature only when the
\* failure reported moves it to disabled; a failure that moves it to
\* fallback gives manager:feature-fallback and no manager:feature-disabled.
C38_DisabledEventMeansDisabled ==
  \A i \in 1..Len(ManagerEmitted) :
    ManagerEmitted[i].type = "manager:feature-disabled" =>
      /\ StateChangesTo(emitted, ManagerEmitted[i].feature, "disabled") # {}
      /\ StateChangesTo(emitted, ManagerEmitted[i].feature, "fallback") = {}

\* C39: every pending retry timer of a feature is in its timer set; and
\* when destroy() has resolved or the feature has just entered fallback, no
\* retry timer is pending, so none scheduled earlier can fire.
C39_NoStaleRetry ==
  \A n \in DOMAIN feat :
    /\ \A t \in feat[n].pending : t.kind = "retry" => t.id \in feat[n].timers
    /\ (\/ lastOp = [lastOp EXCEPT !.op = "destroy", !.unit = n,
                                   !.outcome = "ok"]
        \/ EventsOf(emitted, n, "feature:fallback") # {})
         => \A t \in feat[n].pending : t.kind # "retry"

\* destroy() has resolved on a feature whose failed init had left it in
\* error with a retry scheduled
C39_Witness ==
  \E n \in DOMAIN feat :
    /\ lastOp.op = "destroy"
    /\ lastOp.unit = n
    /\ lastOp.outcome = "ok"
    /\ feat[n].lastError = "init"
    /\ feat[n].retryCount > 0
    /\ feat[n].retryCount < cfg[n].maxRetries
    /\ feat[n].pending = {}

============================================================================
